---- MODULE Spec2Model ----
(***************************************************************************)
(* Placeholder matching of go-docx (placeholder.go).                       *)
(*                                                                         *)
(* A document is a byte sequence; a run is a window [textStart, textEnd)   *)
(* of it.  ParsePlaceholders scans the runs' code points (runes) with a    *)
(* stack of open fragments; Placeholder.Text / StartPos / EndPos read the  *)
(* document BYTES at the recorded positions.  Strings are byte sequences   *)
(* (UTF-8), runes are code points, and the conversions between the two are *)
(* modelled by what they do.                                               *)
(***************************************************************************)
EXTENDS Integers, Sequences, FiniteSets, TLC

VARIABLES
    OpenDelimiter,   \* package variable OpenDelimiter (a rune)
    CloseDelimiter,  \* package variable CloseDelimiter (a rune)
    docBytes,        \* the document bytes handed to ParsePlaceholders: the bytes of
                     \* the slice up to its capacity, docBytes[:cap(docBytes)]
    runs,            \* runs.WithText(): sequence of runs, each a window of docBytes
    pc,              \* "idle" | "scan" | "done" : position inside ParsePlaceholders
    ri,              \* index into runs of the run being scanned (1-based)
    i,               \* loop variable i: index into runRune (0-based, as in the code)
    hasDelimiter,    \* local hasDelimiter of the current run
    stack,           \* local stack of open fragments
    placeholders,    \* result list
    log,             \* lines written by log.Printf
    str,             \* utility calls: the string passed to the first call
    cur,             \* utility calls: the value returned by the last call
    calls,           \* utility calls: names of the calls made so far
    isDelim,         \* utility calls: result of the last IsDelimitedPlaceholder
    err,             \* named result err of ParsePlaceholders
    setter,          \* a call of ChangeOpenCloseDelimiter running beside a reader
    seen             \* what a reader running beside the setter read last

vars == <<OpenDelimiter, CloseDelimiter, docBytes, runs, pc, ri, i, hasDelimiter,
          stack, placeholders, log, str, cur, calls, isDelim, err, setter, seen>>

parseVars == <<docBytes, runs, pc, ri, i, hasDelimiter, stack, placeholders, log, err>>
utilVars == <<str, cur, calls, isDelim>>
raceVars == <<setter, seen>>

(***************************************************************************)
(* Bounds of the model.                                                    *)
(***************************************************************************)
MaxRuns == 3      \* at most this many runs in a generated document
MaxChars == 4     \* at most this many code points in a generated document
MaxStrLen == 3    \* at most this many code points in a utility argument
MaxCalls == 2     \* at most this many chained utility calls

(***************************************************************************)
(* Code points.                                                            *)
(***************************************************************************)
DefaultOpenDelimiter == 123    \* '{'
DefaultCloseDelimiter == 125   \* '}'

\* the other code points of the generated texts: 'a' is one byte in UTF-8, U+00E9 is
\* two (C3 A9), and U+00C3 has the number of the first of these two bytes
Letter == [a |-> 97, eacute |-> 233, atilde |-> 195]

\* the bytes that stand for the <w:t> and </w:t> tags around a run's text
TagByte == [open |-> 60, close |-> 62]

\* U+FFFD, what Go decodes an invalid byte to
RuneError == 65533

Alphabet == {DefaultOpenDelimiter, DefaultCloseDelimiter, Letter.a, Letter.eacute}

(***************************************************************************)
(* Go's string <-> rune conversions (UTF-8).                               *)
(***************************************************************************)
\* string(rune) and the %c verb: the UTF-8 bytes of one code point; a surrogate
\* and a number outside 0..0x10FFFF are encoded as U+FFFD
EncodeRune(r) ==
    IF r < 0 \/ r > 1114111 \/ (r >= 55296 /\ r <= 57343) THEN <<239, 191, 189>>
    ELSE IF r < 128 THEN <<r>>
    ELSE IF r < 2048 THEN <<192 + (r \div 64), 128 + (r % 64)>>
    ELSE IF r < 65536
         THEN <<224 + (r \div 4096), 128 + ((r \div 64) % 64), 128 + (r % 64)>>
    ELSE <<240 + (r \div 262144), 128 + ((r \div 4096) % 64),
           128 + ((r \div 64) % 64), 128 + (r % 64)>>

RECURSIVE EncodeRunes(_)
\* string([]rune): the UTF-8 bytes of a sequence of code points
EncodeRunes(rs) ==
    IF rs = <<>> THEN <<>> ELSE EncodeRune(Head(rs)) \o EncodeRunes(Tail(rs))

IsCont(b) == b >= 128 /\ b < 192

\* the length of the encoding a first byte announces; 0 for a byte that starts none
LeadWidth(b) ==
    IF b < 128 THEN 1
    ELSE IF b >= 194 /\ b < 224 THEN 2
    ELSE IF b >= 224 /\ b < 240 THEN 3
    ELSE IF b >= 240 /\ b < 245 THEN 4
    ELSE 0

\* the range of the second byte after first byte b: narrower after E0 and F0 (no
\* overlong form), after ED (no surrogate) and after F4 (nothing above U+10FFFF)
SecondLo(b) == IF b = 224 THEN 160 ELSE IF b = 240 THEN 144 ELSE 128

SecondHi(b) == IF b = 237 THEN 159 ELSE IF b = 244 THEN 143 ELSE 191

\* number of bytes the decoder consumes at the head of b (1 for an invalid byte)
RuneWidth(b) ==
    LET w == LeadWidth(b[1]) IN
    IF /\ w >= 2
       /\ Len(b) >= w
       /\ b[2] >= SecondLo(b[1])
       /\ b[2] <= SecondHi(b[1])
       /\ \A k \in 3..w : IsCont(b[k])
    THEN w
    ELSE 1

\* the code point decoded at the head of b
RuneAt(b) ==
    IF b[1] < 128 THEN b[1]
    ELSE IF RuneWidth(b) = 2 THEN (b[1] - 192) * 64 + (b[2] - 128)
    ELSE IF RuneWidth(b) = 3 THEN (b[1] - 224) * 4096 + (b[2] - 128) * 64 + (b[3] - 128)
    ELSE IF RuneWidth(b) = 4
         THEN (b[1] - 240) * 262144 + (b[2] - 128) * 4096 + (b[3] - 128) * 64
              + (b[4] - 128)
    ELSE RuneError

RECURSIVE DecodeRunes(_)
\* []rune(string)
DecodeRunes(b) ==
    IF b = <<>> THEN <<>>
    ELSE <<RuneAt(b)>> \o DecodeRunes(SubSeq(b, RuneWidth(b) + 1, Len(b)))

\* Go's b[lo:hi].  b is what the expression can reach: the bytes of a string, and
\* for a []byte the bytes of its backing array from b[0] up to the capacity
\* (the code never takes len(docBytes), it only slices it).  The expression
\* panics unless 0 <= lo <= hi <= cap(b); outside this range Slice has no value.
Slice(b, lo, hi) ==
    CASE 0 <= lo /\ lo <= hi /\ hi <= Len(b) -> [n \in 1..(hi - lo) |-> b[lo + n]]

(***************************************************************************)
(* Documents and runs.  A run is the window of the document between the    *)
(* end of its <w:t> open tag (Text.OpenTag.End) and the start of its close *)
(* tag (Text.CloseTag.Start).                                              *)
(***************************************************************************)
RECURSIVE DocOf(_)
\* the document bytes of a sequence of run texts (each a sequence of code points)
DocOf(texts) ==
    IF texts = <<>> THEN <<>>
    ELSE <<TagByte.open>> \o EncodeRunes(Head(texts)) \o <<TagByte.close>> \o DocOf(Tail(texts))

\* the runs the tokenizer reports for that document
RunsOf(texts) ==
    [k \in 1..Len(texts) |->
        LET before == Len(DocOf(SubSeq(texts, 1, k - 1))) IN
        [ID |-> k,
         TextStart |-> before + 1,
         TextEnd |-> before + 1 + Len(EncodeRunes(texts[k]))]]

\* Run.GetText(docBytes)
GetText(doc, run) == Slice(doc, run.TextStart, run.TextEnd)

\* runRune := []rune(run.GetText(docBytes))
RunRune(doc, run) == DecodeRunes(GetText(doc, run))

\* NewPlaceholderFragment(Position{start, end}, run); a run is referred to by its index
NewPlaceholderFragment(start, end, run) ==
    [Position |-> [Start |-> start, End |-> end], Run |-> run, SpanRun |-> <<>>]

(***************************************************************************)
(* ParsePlaceholders, branch by branch.  st is the record of the locals    *)
(* stack, placeholders, hasDelimiter and of the log; rs and doc are the    *)
(* arguments; r is the index of the run being scanned and idx is i.        *)
(***************************************************************************)
EmptyScan == [stack |-> <<>>, placeholders |-> <<>>, hasDelimiter |-> FALSE, log |-> <<>>]

\* OpenBranch overwriting the open fragment on top of the stack instead of pushing
OpenBranchOverwrite(st, rs, doc, r, idx) ==
    [st EXCEPT !.hasDelimiter = TRUE,
               !.stack = SubSeq(@, 1, Len(@) - 1)
                         \o <<NewPlaceholderFragment(idx, -1, r)>>]

\* runRune[i] == OpenDelimiter: push a partial fragment
OpenBranch(st, rs, doc, r, idx) ==
    [st EXCEPT !.hasDelimiter = TRUE,
               !.stack = Append(@, NewPlaceholderFragment(idx, -1, r))]

\* UnmatchedCloseBranch with the log.Printf call left out
UnmatchedCloseBranchSilent(st, rs, doc, r, idx) == st

\* close delimiter with an empty stack: log and skip
UnmatchedCloseBranch(st, rs, doc, r, idx) ==
    [st EXCEPT !.log = Append(@, [kind |-> "unmatched close", run |-> rs[r].ID,
                                   text |-> GetText(doc, rs[r]), index |-> idx])]

\* fragment := stack[len(stack)-1]
TopOfStack(s) == s[Len(s)]

\* PopStack off by one: stack[:len(stack)-2], or nothing when one fragment is left
PopStackTwo(s) == SubSeq(s, 1, Len(s) - 2)

\* stack = stack[:len(stack)-1]
PopStack(s) == SubSeq(s, 1, Len(s) - 1)

\* a) open and close delimiter in the same run: one fragment
CloseSameRun(fragment, rs, doc, r, idx) ==
    [Fragments |-> <<[fragment EXCEPT !.Position.End = idx + 1]>>]

\* CloseCrossRun with the last fragment ending at the close delimiter, not past it
CloseCrossRunShort(fragment, rs, doc, r, idx) ==
    [Fragments |->
        <<[fragment EXCEPT !.Position.End = Len(GetText(doc, rs[fragment.Run]))]>>
        \o [k \in 1..Len(fragment.SpanRun) |->
              NewPlaceholderFragment(0, Len(GetText(doc, rs[fragment.SpanRun[k]])),
                                     fragment.SpanRun[k])]
        \o <<NewPlaceholderFragment(0, idx, r)>>]

\* CloseCrossRun leaving the End of the popped fragment at its sentinel
CloseCrossRunOpenEnd(fragment, rs, doc, r, idx) ==
    [Fragments |->
        <<fragment>>
        \o [k \in 1..Len(fragment.SpanRun) |->
              NewPlaceholderFragment(0, Len(GetText(doc, rs[fragment.SpanRun[k]])),
                                     fragment.SpanRun[k])]
        \o <<NewPlaceholderFragment(0, idx + 1, r)>>]

\* b) the close delimiter is in a later run: first fragment up to the end of its
\*    run, one whole-run fragment per span run, last fragment from 0 to i+1
CloseCrossRun(fragment, rs, doc, r, idx) ==
    [Fragments |->
        <<[fragment EXCEPT !.Position.End = Len(GetText(doc, rs[fragment.Run]))]>>
        \o [k \in 1..Len(fragment.SpanRun) |->
              NewPlaceholderFragment(0, Len(GetText(doc, rs[fragment.SpanRun[k]])),
                                     fragment.SpanRun[k])]
        \o <<NewPlaceholderFragment(0, idx + 1, r)>>]

\* AppendPlaceholder putting the new placeholder in front
AppendPlaceholderFront(ps, p) == <<p>> \o ps

\* placeholders = append(placeholders, p)
AppendPlaceholder(ps, p) == Append(ps, p)

\* MatchedCloseBranch without hasDelimiter = true
MatchedCloseBranchNoFlag(st, rs, doc, r, idx) ==
    LET fragment == TopOfStack(st.stack) IN
    [st EXCEPT !.stack = PopStack(@),
               !.placeholders =
                   AppendPlaceholder(@, IF r = fragment.Run
                                        THEN CloseSameRun(fragment, rs, doc, r, idx)
                                        ELSE CloseCrossRun(fragment, rs, doc, r, idx))]

\* close delimiter with a non-empty stack: pop and emit
MatchedCloseBranch(st, rs, doc, r, idx) ==
    LET fragment == TopOfStack(st.stack) IN
    [st EXCEPT !.hasDelimiter = TRUE,
               !.stack = PopStack(@),
               !.placeholders =
                   AppendPlaceholder(@, IF r = fragment.Run
                                        THEN CloseSameRun(fragment, rs, doc, r, idx)
                                        ELSE CloseCrossRun(fragment, rs, doc, r, idx))]

\* one iteration of the inner loop, on runRune[i]
ScanRune(st, rs, doc, r, idx, open, close) ==
    LET ch == RunRune(doc, rs[r])[idx + 1] IN
    IF ch = open THEN OpenBranch(st, rs, doc, r, idx)
    ELSE IF ch = close
         THEN IF Len(st.stack) = 0
              THEN UnmatchedCloseBranch(st, rs, doc, r, idx)
              ELSE MatchedCloseBranch(st, rs, doc, r, idx)
         ELSE st

\* SpanRunBranch adding the run to the fragment on top of the stack only
SpanRunBranchTopOnly(st, r) ==
    IF ~st.hasDelimiter
    THEN [st EXCEPT !.stack = [k \in 1..Len(@) |->
                                 IF k = Len(@) THEN [@[k] EXCEPT !.SpanRun = Append(@, r)]
                                 ELSE @[k]]]
    ELSE st

\* SpanRunBranch with the emitted placeholders still sharing the span-run list of
\* their first fragment with the scan
SpanRunBranchShared(st, r) ==
    IF ~st.hasDelimiter
    THEN [st EXCEPT !.stack = [k \in 1..Len(@) |->
                                 [@[k] EXCEPT !.SpanRun = Append(@, r)]],
                    !.placeholders = [n \in 1..Len(@) |->
                                 [@[n] EXCEPT !.Fragments[1].SpanRun = Append(@, r)]]]
    ELSE st

\* after the inner loop: a run without delimiter is a span run of every open fragment
SpanRunBranch(st, r) ==
    IF ~st.hasDelimiter
    THEN [st EXCEPT !.stack = [k \in 1..Len(@) |->
                                 [@[k] EXCEPT !.SpanRun = Append(@, r)]]]
    ELSE st

\* UnmatchedOpenBranch warning only about the fragment on top of the stack
UnmatchedOpenBranchTopOnly(st, rs, doc) ==
    [st EXCEPT !.log = @ \o [k \in 1..(IF st.stack = <<>> THEN 0 ELSE 1) |->
                               [kind |-> "unmatched open",
                                run |-> rs[TopOfStack(st.stack).Run].ID,
                                text |-> GetText(doc, rs[TopOfStack(st.stack).Run]),
                                index |-> TopOfStack(st.stack).Position.Start]]]

\* after the outer loop: one log line per fragment left on the stack
UnmatchedOpenBranch(st, rs, doc) ==
    [st EXCEPT !.log = @ \o [k \in 1..Len(st.stack) |->
                               [kind |-> "unmatched open",
                                run |-> rs[st.stack[k].Run].ID,
                                text |-> GetText(doc, rs[st.stack[k].Run]),
                                index |-> st.stack[k].Position.Start]]]

RECURSIVE ScanFrom(_, _, _, _, _, _, _)
\* the rest of ParsePlaceholders from run r, index idx
ScanFrom(st, rs, doc, r, idx, open, close) ==
    IF r > Len(rs) THEN UnmatchedOpenBranch(st, rs, doc)
    ELSE IF idx < Len(RunRune(doc, rs[r]))
         THEN ScanFrom(ScanRune(st, rs, doc, r, idx, open, close), rs, doc, r, idx + 1,
                       open, close)
         ELSE ScanFrom([SpanRunBranch(st, r) EXCEPT !.hasDelimiter = FALSE], rs, doc,
                       r + 1, 0, open, close)

\* ParsePlaceholders(runs, docBytes) under the delimiters open, close
ParsePlaceholders(rs, doc, open, close) == ScanFrom(EmptyScan, rs, doc, 1, 0, open, close)

(***************************************************************************)
(* Placeholder accessors.                                                  *)
(***************************************************************************)
RECURSIVE FragmentsText(_, _, _)
FragmentsText(fs, rs, doc) ==
    IF fs = <<>> THEN <<>>
    ELSE LET s == rs[Head(fs).Run].TextStart IN
         Slice(doc, s + Head(fs).Position.Start, s + Head(fs).Position.End)
         \o FragmentsText(Tail(fs), rs, doc)

\* Placeholder.Text(docBytes)
Text(p, rs, doc) == FragmentsText(p.Fragments, rs, doc)

\* Placeholder.StartPos()
StartPos(p, rs) == rs[p.Fragments[1].Run].TextStart + p.Fragments[1].Position.Start

\* Placeholder.EndPos()
EndPos(p, rs) ==
    LET end == Len(p.Fragments) IN
    rs[p.Fragments[end].Run].TextStart + p.Fragments[end].Position.End

(***************************************************************************)
(* Inputs: documents of at most MaxRuns runs and MaxChars code points over *)
(* Alphabet, and the two documents of the comments in ParsePlaceholders.   *)
(***************************************************************************)
FlatTexts == UNION {[1..n -> Alphabet] : n \in 0..MaxChars}

\* the k-1 places where a text of n code points is cut into k runs
Cuts(n, k) == {c \in [1..(k - 1) -> 0..n] : \A j \in 1..(k - 2) : c[j] <= c[j + 1]}

Split(f, c, k) ==
    [j \in 1..k |-> SubSeq(f, (IF j = 1 THEN 0 ELSE c[j - 1]) + 1,
                              IF j = k THEN Len(f) ELSE c[j])]


\* foo{bar{bc}d}baz in one run
NestedOneRun ==
    <<<<102, 111, 111, 123, 98, 97, 114, 123, 98, 99, 125, 100, 125, 98, 97, 122>>>>

\* foo{bar | {bc | d}ef | }baz
NestedCrossRun ==
    <<<<102, 111, 111, 123, 98, 97, 114>>, <<123, 98, 99>>, <<100, 125, 101, 102>>,
      <<125, 98, 97, 122>>>>

\* the documents of the comments in ParsePlaceholders
CommentTexts == {NestedOneRun, NestedCrossRun}

\* what the backing array of docBytes holds between len and cap: nothing, or a
\* byte left over from an earlier use
Spares == {<<>>, <<0>>, <<DefaultCloseDelimiter>>}

\* the delimiter pairs ChangeOpenCloseDelimiter is called with before a parse
ParseDelimiters ==
    {<<DefaultOpenDelimiter, DefaultCloseDelimiter>>,
     <<DefaultOpenDelimiter, DefaultOpenDelimiter>>,
     <<Letter.eacute, DefaultCloseDelimiter>>}

\* no call of ChangeOpenCloseDelimiter is running
NoSetter == [pc |-> "idle"]

\* no reader has read the delimiters yet
NothingSeen == [pc |-> "start",
                open |-> DefaultOpenDelimiter, atOpen |-> NoSetter,
                close |-> DefaultCloseDelimiter, atClose |-> NoSetter]

(***************************************************************************)
(* The state machine of one call of ParsePlaceholders.                     *)
(***************************************************************************)
Init ==
    /\ OpenDelimiter = DefaultOpenDelimiter
    /\ CloseDelimiter = DefaultCloseDelimiter
    /\ \/ \E texts \in CommentTexts : \E spare \in Spares :
              docBytes = DocOf(texts) \o spare /\ runs = RunsOf(texts)
       \/ \E f \in FlatTexts : \E k \in 1..MaxRuns : \E c \in Cuts(Len(f), k) :
              docBytes = DocOf(Split(f, c, k)) /\ runs = RunsOf(Split(f, c, k))
    /\ pc = "idle"
    /\ ri = 1
    /\ i = 0
    /\ hasDelimiter = FALSE
    /\ stack = <<>>
    /\ placeholders = <<>>
    /\ log = <<>>
    /\ str = <<>>
    /\ cur = <<>>
    /\ calls = <<>>
    /\ isDelim = FALSE
    /\ err = "nil"
    /\ setter = NoSetter
    /\ seen = NothingSeen

\* the locals of the scan as one record
Scan == [stack |-> stack, placeholders |-> placeholders, hasDelimiter |-> hasDelimiter,
         log |-> log]

SetScan(st) ==
    /\ stack' = st.stack
    /\ placeholders' = st.placeholders
    /\ hasDelimiter' = st.hasDelimiter
    /\ log' = st.log

runRune == RunRune(docBytes, runs[ri])

InRun == pc = "scan" /\ ri <= Len(runs) /\ i < Len(runRune)

\* ChangeOpenCloseDelimiter(openDelimiter, closeDelimiter), called between parses
ChangeOpenCloseDelimiter(openDelimiter, closeDelimiter) ==
    /\ pc = "idle"
    /\ calls = <<>>
    /\ OpenDelimiter' = openDelimiter
    /\ CloseDelimiter' = closeDelimiter
    /\ UNCHANGED <<raceVars, parseVars, utilVars>>

\* the call of ParsePlaceholders: stack := []
ParseBegin ==
    /\ pc = "idle"
    /\ pc' = "scan"
    /\ UNCHANGED <<raceVars, err, OpenDelimiter, CloseDelimiter, docBytes, runs, ri, i, hasDelimiter,
                   stack, placeholders, log, utilVars>>

ScanStep(st) ==
    /\ SetScan(st)
    /\ i' = i + 1
    /\ UNCHANGED <<raceVars, err, OpenDelimiter, CloseDelimiter, docBytes, runs, pc, ri, utilVars>>

ScanOpen ==
    /\ InRun
    /\ runRune[i + 1] = OpenDelimiter
    /\ ScanStep(OpenBranch(Scan, runs, docBytes, ri, i))

\* ScanUnmatchedClose with the close delimiter tested before the open delimiter
ScanUnmatchedCloseFirst ==
    /\ InRun
    /\ runRune[i + 1] = CloseDelimiter
    /\ Len(stack) = 0
    /\ ScanStep(UnmatchedCloseBranch(Scan, runs, docBytes, ri, i))

ScanUnmatchedClose ==
    /\ InRun
    /\ runRune[i + 1] # OpenDelimiter
    /\ runRune[i + 1] = CloseDelimiter
    /\ Len(stack) = 0
    /\ ScanStep(UnmatchedCloseBranch(Scan, runs, docBytes, ri, i))

ScanCloseSameRun ==
    /\ InRun
    /\ runRune[i + 1] # OpenDelimiter
    /\ runRune[i + 1] = CloseDelimiter
    /\ Len(stack) # 0
    /\ TopOfStack(stack).Run = ri
    /\ ScanStep(MatchedCloseBranch(Scan, runs, docBytes, ri, i))

ScanCloseCrossRun ==
    /\ InRun
    /\ runRune[i + 1] # OpenDelimiter
    /\ runRune[i + 1] = CloseDelimiter
    /\ Len(stack) # 0
    /\ TopOfStack(stack).Run # ri
    /\ ScanStep(MatchedCloseBranch(Scan, runs, docBytes, ri, i))

ScanOther ==
    /\ InRun
    /\ runRune[i + 1] # OpenDelimiter
    /\ runRune[i + 1] # CloseDelimiter
    /\ ScanStep(Scan)

\* end of the inner loop: the span-run step, then the next run
EndRun ==
    /\ pc = "scan"
    /\ ri <= Len(runs)
    /\ i = Len(runRune)
    /\ SetScan([SpanRunBranch(Scan, ri) EXCEPT !.hasDelimiter = FALSE])
    /\ ri' = ri + 1
    /\ i' = 0
    /\ UNCHANGED <<raceVars, err, OpenDelimiter, CloseDelimiter, docBytes, runs, pc, utilVars>>

\* ParseReturn reporting the unmatched opens as an error
ParseReturnFails ==
    /\ pc = "scan"
    /\ ri > Len(runs)
    /\ SetScan(UnmatchedOpenBranch(Scan, runs, docBytes))
    /\ pc' = "done"
    /\ err' = IF stack = <<>> THEN "nil" ELSE "unmatched open delimiter"
    /\ UNCHANGED <<raceVars, OpenDelimiter, CloseDelimiter, docBytes, runs, ri, i, utilVars>>

\* end of the outer loop: warn about the unmatched opens and return
ParseReturn ==
    /\ pc = "scan"
    /\ ri > Len(runs)
    /\ SetScan(UnmatchedOpenBranch(Scan, runs, docBytes))
    /\ pc' = "done"
    /\ err' = "nil"
    /\ UNCHANGED <<raceVars, OpenDelimiter, CloseDelimiter, docBytes, runs, ri, i, utilVars>>

Next ==
    \/ \E d \in ParseDelimiters : ChangeOpenCloseDelimiter(d[1], d[2])
    \/ ParseBegin
    \/ ScanOpen
    \/ ScanUnmatchedClose
    \/ ScanCloseSameRun
    \/ ScanCloseCrossRun
    \/ ScanOther
    \/ EndRun
    \/ ParseReturn

Spec == Init /\ [][Next]_vars

\* a step of the running call of ParsePlaceholders
ParseStep ==
    \/ ScanOpen
    \/ ScanUnmatchedClose
    \/ ScanCloseSameRun
    \/ ScanCloseCrossRun
    \/ ScanOther
    \/ EndRun
    \/ ParseReturn

(***************************************************************************)
(* Delimiter utilities.  A string is its sequence of bytes.                *)
(***************************************************************************)
\* IsDelimitedPlaceholder(s): compares the first and the last BYTE of s, widened to
\* a rune, with the delimiters
IsDelimitedPlaceholder(s, open, close) ==
    IF Len(s) < 1 THEN FALSE
    ELSE LET first == s[1]
             last == s[Len(s)]
         IN  first = open /\ last = close

\* AddPlaceholderDelimiter(s): fmt.Sprintf("%c%s%c", OpenDelimiter, s, CloseDelimiter)
AddPlaceholderDelimiter(s, open, close) ==
    IF IsDelimitedPlaceholder(s, open, close) THEN s
    ELSE EncodeRune(open) \o s \o EncodeRune(close)

RECURSIVE TrimLeft(_, _)
\* strings.TrimLeft: drop leading code points that are in cutset
TrimLeft(s, cutset) ==
    IF s = <<>> THEN s
    ELSE IF RuneAt(s) \in cutset THEN TrimLeft(SubSeq(s, RuneWidth(s) + 1, Len(s)), cutset)
    ELSE s

\* utf8.DecodeLastRune: where the decoder starts, counted in bytes from the head
\* of b: at the nearest byte before the last one that is no continuation byte, at
\* most UTFMax bytes from the end
LastRuneStart(b) ==
    LET end == Len(b)
        lim == IF end - 4 < 0 THEN 0 ELSE end - 4
        starts == {k \in lim..(end - 2) : ~IsCont(b[k + 1])}
    IN  IF starts # {} THEN CHOOSE k \in starts : \A m \in starts : m <= k
        ELSE IF lim - 1 < 0 THEN 0
        ELSE lim - 1

\* number of bytes the decoder consumes at the end of b (1 for an invalid byte)
LastRuneWidth(b) ==
    IF b[Len(b)] < 128 THEN 1
    ELSE LET start == LastRuneStart(b)
             size == RuneWidth(SubSeq(b, start + 1, Len(b)))
         IN  IF start + size # Len(b) THEN 1 ELSE size

\* the code point decoded at the end of b
LastRuneAt(b) ==
    IF b[Len(b)] < 128 THEN b[Len(b)]
    ELSE LET start == LastRuneStart(b)
             size == RuneWidth(SubSeq(b, start + 1, Len(b)))
         IN  IF start + size # Len(b) THEN RuneError
             ELSE RuneAt(SubSeq(b, start + 1, Len(b)))

RECURSIVE TrimRight(_, _)
\* strings.TrimRight: drop trailing code points that are in cutset; the bytes that
\* are kept are the bytes of s
TrimRight(s, cutset) ==
    IF s = <<>> THEN s
    ELSE IF LastRuneAt(s) \in cutset
         THEN TrimRight(SubSeq(s, 1, Len(s) - LastRuneWidth(s)), cutset)
    ELSE s

\* strings.Trim(s, cutset): the right end first, then the left end
Trim(s, cutset) == TrimLeft(TrimRight(s, cutset), cutset)

\* the code points of the cutset string(OpenDelimiter) + string(CloseDelimiter)
Cutset(open, close) ==
    LET rs == DecodeRunes(EncodeRune(open) \o EncodeRune(close)) IN
    {rs[n] : n \in 1..Len(rs)}

\* RemovePlaceholderDelimiter(s): strings.Trim(s, string(open) + string(close))
RemovePlaceholderDelimiter(s, open, close) ==
    IF ~IsDelimitedPlaceholder(s, open, close) THEN s
    ELSE Trim(s, Cutset(open, close))

\* the strings the utilities are called with
UtilStrings == {EncodeRunes(f) : f \in UNION {[1..n -> Alphabet] : n \in 0..MaxStrLen}}

\* the delimiter pairs ChangeOpenCloseDelimiter is called with before utility calls
UtilDelimiters ==
    {<<DefaultOpenDelimiter, DefaultCloseDelimiter>>,
     <<DefaultOpenDelimiter, DefaultOpenDelimiter>>,
     <<Letter.eacute, DefaultCloseDelimiter>>,
     <<DefaultOpenDelimiter, Letter.eacute>>,
     <<Letter.atilde, DefaultCloseDelimiter>>}

InitUtil ==
    /\ OpenDelimiter = DefaultOpenDelimiter
    /\ CloseDelimiter = DefaultCloseDelimiter
    /\ docBytes = <<>>
    /\ runs = <<>>
    /\ pc = "idle"
    /\ ri = 1
    /\ i = 0
    /\ hasDelimiter = FALSE
    /\ stack = <<>>
    /\ placeholders = <<>>
    /\ log = <<>>
    /\ str \in UtilStrings
    /\ cur = str
    /\ calls = <<>>
    /\ isDelim = FALSE
    /\ err = "nil"
    /\ setter = NoSetter
    /\ seen = NothingSeen

CallAdd ==
    /\ Len(calls) < MaxCalls
    /\ cur' = AddPlaceholderDelimiter(cur, OpenDelimiter, CloseDelimiter)
    /\ calls' = Append(calls, "Add")
    /\ UNCHANGED <<raceVars, OpenDelimiter, CloseDelimiter, parseVars, str, isDelim>>

CallRemove ==
    /\ Len(calls) < MaxCalls
    /\ cur' = RemovePlaceholderDelimiter(cur, OpenDelimiter, CloseDelimiter)
    /\ calls' = Append(calls, "Remove")
    /\ UNCHANGED <<raceVars, OpenDelimiter, CloseDelimiter, parseVars, str, isDelim>>

CallIsDelimited ==
    /\ Len(calls) < MaxCalls
    /\ isDelim' = IsDelimitedPlaceholder(cur, OpenDelimiter, CloseDelimiter)
    /\ calls' = Append(calls, "IsDelimited")
    /\ UNCHANGED <<raceVars, OpenDelimiter, CloseDelimiter, parseVars, str, cur>>

NextUtil ==
    \/ \E d \in UtilDelimiters : ChangeOpenCloseDelimiter(d[1], d[2])
    \/ CallAdd
    \/ CallRemove
    \/ CallIsDelimited

SpecUtil == InitUtil /\ [][NextUtil]_vars

\* s is delimited, character by character: its first code point is the open
\* delimiter and its last code point is the close delimiter
CharDelimited(s, open, close) ==
    LET rs == DecodeRunes(s) IN
    Len(rs) >= 1 /\ rs[1] = open /\ rs[Len(rs)] = close

\* C6: for every string that is not already delimited, removing the delimiters
\* that AddPlaceholderDelimiter added gives the string back.
C6_RoundTrip ==
    (calls = <<"Add", "Remove">> /\ ~CharDelimited(str, OpenDelimiter, CloseDelimiter))
        => cur = str

\* C7: AddPlaceholderDelimiter is idempotent for every string and delimiter pair.
C7_AddIdempotent ==
    calls = <<"Add", "Add">>
        => cur = AddPlaceholderDelimiter(str, OpenDelimiter, CloseDelimiter)

\* C8: IsDelimitedPlaceholder(s) is true iff s is non-empty, its first character
\* is the open delimiter and its last character is the close delimiter.
C8_IsDelimitedByCharacter ==
    (calls # <<>> /\ calls[Len(calls)] = "IsDelimited")
        => isDelim = CharDelimited(cur, OpenDelimiter, CloseDelimiter)

(***************************************************************************)
(* What the document says, read independently of the matcher.              *)
(***************************************************************************)
\* the text of every run, as code points
Texts == [k \in 1..Len(runs) |-> RunRune(docBytes, runs[k])]

\* the byte offset, inside a run text, of the code point with index n
ByteOffset(rs, n) == Len(EncodeRunes(SubSeq(rs, 1, n)))

RECURSIVE Concat(_)
Concat(ts) == IF ts = <<>> THEN <<>> ELSE Head(ts) \o Concat(Tail(ts))

IsDelimiterRune(ch) == ch = OpenDelimiter \/ ch = CloseDelimiter

NoDelimiterIn(rs) == \A n \in 1..Len(rs) : ~IsDelimiterRune(rs[n])

FirstFragment(p) == p.Fragments[1]
LastFragment(p) == p.Fragments[Len(p.Fragments)]

\* the code points of the document from the open delimiter of p (index Start in the
\* run of its first fragment) through its close delimiter (index End-1 in the run of
\* its last fragment), every run in between included
LiteralRunes(p) ==
    LET a == FirstFragment(p).Run
        c == LastFragment(p).Run
        s == FirstFragment(p).Position.Start
        e == LastFragment(p).Position.End
    IN  IF a = c THEN SubSeq(Texts[a], s + 1, e)
        ELSE SubSeq(Texts[a], s + 1, Len(Texts[a]))
             \o Concat(SubSeq(Texts, a + 1, c - 1))
             \o SubSeq(Texts[c], 1, e)

Emitted == {placeholders[n] : n \in 1..Len(placeholders)}

\* C1: the text of every returned placeholder is the full literal document text
\* from its open delimiter through its matching close delimiter, nested
\* placeholders and every run in between included.
C1_TextIsFullLiteral ==
    \A p \in Emitted : Text(p, runs, docBytes) = EncodeRunes(LiteralRunes(p))

RECURSIVE BalancedFrom(_, _)
\* the delimiters of rs, read left to right from nesting depth d, pair up
BalancedFrom(rs, d) ==
    IF rs = <<>> THEN d = 0
    ELSE IF Head(rs) = OpenDelimiter THEN BalancedFrom(Tail(rs), d + 1)
    ELSE IF Head(rs) = CloseDelimiter THEN d > 0 /\ BalancedFrom(Tail(rs), d - 1)
    ELSE BalancedFrom(Tail(rs), d)

Balanced(rs) == BalancedFrom(rs, 0)

CountRune(rs, ch) == Cardinality({n \in 1..Len(rs) : rs[n] = ch})

\* C2: a run sequence whose delimiters form N correctly nested pairs, none
\* dangling, yields exactly N placeholders.
C2_BalancedYieldsN ==
    (pc = "done" /\ Balanced(Concat(Texts)))
        => Len(placeholders) = CountRune(Concat(Texts), OpenDelimiter)

C2_Witness ==
    /\ pc = "done"
    /\ Balanced(Concat(Texts))
    /\ Len(placeholders) = 2
    /\ \E p \in Emitted : Len(p.Fragments) > 1
    /\ \E p \in Emitted : Len(p.Fragments) = 1

\* C3: a placeholder opened in run A and closed in a later run C, the runs in
\* between carrying no delimiter, has as text A from the open delimiter to its end,
\* the whole text of every run in between, and C through the close delimiter.
C3_CrossRunText ==
    \A p \in Emitted :
        LET a == FirstFragment(p).Run
            c == LastFragment(p).Run
        IN  (a < c /\ \A k \in (a + 1)..(c - 1) : NoDelimiterIn(Texts[k]))
                => Text(p, runs, docBytes) =
                       EncodeRunes(SubSeq(Texts[a], FirstFragment(p).Position.Start + 1,
                                          Len(Texts[a])))
                       \o Concat([k \in 1..(c - a - 1) |-> GetText(docBytes, runs[a + k])])
                       \o EncodeRunes(SubSeq(Texts[c], 1, LastFragment(p).Position.End))

\* p and q lie in one run, p strictly inside q
NestedInOneRun(p, q) ==
    /\ Len(p.Fragments) = 1
    /\ Len(q.Fragments) = 1
    /\ p.Fragments[1].Run = q.Fragments[1].Run
    /\ q.Fragments[1].Position.Start < p.Fragments[1].Position.Start
    /\ p.Fragments[1].Position.End < q.Fragments[1].Position.End

\* the texts the parse of foo{bar{bc}d}baz has to return: {bc} then {bar{bc}d}
NestedOneRunTexts ==
    <<<<123, 98, 99, 125>>, <<123, 98, 97, 114, 123, 98, 99, 125, 100, 125>>>>

\* the byte sequence t holds the byte sequence lit somewhere, in one piece
Contains(t, lit) ==
    \E off \in 0..(Len(t) - Len(lit)) : Slice(t, off, off + Len(lit)) = lit

\* C4: within one run a close delimiter is paired with the nearest preceding open
\* delimiter that is still unclosed; an inner placeholder is emitted before the
\* outer one, and the text of the outer one holds the inner placeholder literally,
\* that is the document text from the inner open delimiter through the inner close
\* delimiter; foo{bar{bc}d}baz yields {bc}, {bar{bc}d}.
C4_NestingInOneRun ==
    /\ \A p \in Emitted :
           Len(p.Fragments) = 1 =>
               LET t == Texts[p.Fragments[1].Run]
                   s == p.Fragments[1].Position.Start
                   e == p.Fragments[1].Position.End
               IN  /\ t[s + 1] = OpenDelimiter
                   /\ t[e] = CloseDelimiter
                   /\ Balanced(SubSeq(t, s + 2, e - 1))
    /\ \A m, n \in 1..Len(placeholders) :
           NestedInOneRun(placeholders[m], placeholders[n]) =>
               LET p == placeholders[m]
                   q == placeholders[n]
               IN  /\ m < n
                   /\ Contains(Text(q, runs, docBytes), EncodeRunes(LiteralRunes(p)))
    /\ (pc = "done" /\ Texts = NestedOneRun
            /\ OpenDelimiter = DefaultOpenDelimiter /\ CloseDelimiter = DefaultCloseDelimiter)
           => [n \in 1..Len(placeholders) |-> Text(placeholders[n], runs, docBytes)]
                  = NestedOneRunTexts

\* C5: StartPos is the absolute byte offset of the open delimiter and EndPos the
\* absolute byte offset just past the matching close delimiter.
C5_AbsolutePositions ==
    \A p \in Emitted :
        /\ StartPos(p, runs) =
               runs[FirstFragment(p).Run].TextStart
               + ByteOffset(Texts[FirstFragment(p).Run], FirstFragment(p).Position.Start)
        /\ EndPos(p, runs) =
               runs[LastFragment(p).Run].TextStart
               + ByteOffset(Texts[LastFragment(p).Run], LastFragment(p).Position.End)

\* where the close delimiter of p was scanned: run, then index
ClosedAt(p) == <<LastFragment(p).Run, LastFragment(p).Position.End - 1>>

Before(x, y) == x[1] < y[1] \/ (x[1] = y[1] /\ x[2] < y[2])

\* C9: the placeholders are returned in the order in which their close delimiters
\* were scanned.
C9_OrderedByClose ==
    \A m, n \in 1..Len(placeholders) :
        Before(ClosedAt(placeholders[m]), ClosedAt(placeholders[n])) => m < n

\* where the open delimiter of p was scanned
OpenedAt(p) == <<FirstFragment(p).Run, FirstFragment(p).Position.Start>>

C9_Witness ==
    /\ pc = "done"
    /\ Len(placeholders) >= 2
    /\ \E m, n \in 1..Len(placeholders) :
           /\ m < n
           /\ Before(OpenedAt(placeholders[n]), OpenedAt(placeholders[m]))
           /\ Len(placeholders[n].Fragments) > 1

\* the scan is at a close delimiter and no fragment is open
AtUnmatchedClose ==
    /\ InRun
    /\ runRune[i + 1] = CloseDelimiter
    /\ runRune[i + 1] # OpenDelimiter
    /\ stack = <<>>

\* the run texts without the code point at index idx of run k
Without(texts, k, idx) ==
    [texts EXCEPT ![k] = SubSeq(@, 1, idx) \o SubSeq(@, idx + 2, Len(@))]

\* the number of placeholders ParsePlaceholders returns for the run texts
CountFor(texts) ==
    Len(ParsePlaceholders(RunsOf(texts), DocOf(texts), OpenDelimiter,
                          CloseDelimiter).placeholders)

UnmatchedCloses == {n \in 1..Len(log) : log[n].kind = "unmatched close"}

\* C10: a close delimiter scanned with an empty stack writes exactly one
\* diagnostic, leaves the stack and the placeholders as they are, and the scan
\* goes on; the call returns as many placeholders as without that character.
C10_UnmatchedCloseSkipped ==
    /\ [][AtUnmatchedClose =>
            /\ Len(log') = Len(log) + 1
            /\ SubSeq(log', 1, Len(log)) = log
            /\ log'[Len(log')].kind = "unmatched close"
            /\ log'[Len(log')].run = runs[ri].ID
            /\ log'[Len(log')].index = i
            /\ stack' = stack
            /\ placeholders' = placeholders
            /\ pc' = "scan" /\ ri' = ri /\ i' = i + 1]_vars
    /\ [](pc = "done" =>
            \A n \in UnmatchedCloses :
                Len(placeholders) = CountFor(Without(Texts, log[n].run, log[n].index)))

C10_Witness ==
    /\ pc = "done"
    /\ Cardinality(UnmatchedCloses) >= 1
    /\ Len(placeholders) >= 1
    /\ \E n \in UnmatchedCloses : log[n].index > 0

\* every place of the document where a code point stands: run, then index
AllPositions ==
    Concat([k \in 1..Len(runs) |-> [n \in 1..Len(Texts[k]) |-> <<k, n - 1>>]])

RuneAtPosition(pos) == Texts[pos[1]][pos[2] + 1]

RECURSIVE PendingOpens(_, _)
\* the places of the open delimiters of ps that no close delimiter of ps closes,
\* the ones in open being pending already
PendingOpens(ps, open) ==
    IF ps = <<>> THEN open
    ELSE IF RuneAtPosition(Head(ps)) = OpenDelimiter
         THEN PendingOpens(Tail(ps), Append(open, Head(ps)))
    ELSE IF RuneAtPosition(Head(ps)) = CloseDelimiter
         THEN PendingOpens(Tail(ps), IF open = <<>> THEN open
                                     ELSE SubSeq(open, 1, Len(open) - 1))
    ELSE PendingOpens(Tail(ps), open)

IsUnmatchedOpen(line) == line.kind = "unmatched open"

UnmatchedOpenLines == SelectSeq(log, IsUnmatchedOpen)

\* C11: every open delimiter that is still unclosed when all runs are consumed
\* gets exactly one diagnostic, and no returned placeholder starts at it.
C11_UnmatchedOpenDropped ==
    pc = "done" =>
        LET pending == PendingOpens(AllPositions, <<>>) IN
        /\ [n \in 1..Len(UnmatchedOpenLines) |->
               <<UnmatchedOpenLines[n].run, UnmatchedOpenLines[n].index>>] = pending
        /\ \A p \in Emitted : \A n \in 1..Len(pending) : OpenedAt(p) # pending[n]

C11_Witness ==
    /\ pc = "done"
    /\ Len(UnmatchedOpenLines) >= 2
    /\ Len(placeholders) >= 1
    /\ OpenDelimiter # CloseDelimiter

\* what the call still has to do: one step per code point left, one per run left
\* and the return
RECURSIVE StepsLeftFrom(_)
StepsLeftFrom(k) == IF k > Len(runs) THEN 1 ELSE Len(Texts[k]) + 1 + StepsLeftFrom(k + 1)

StepsLeft(p, r, idx) == IF p = "done" THEN 0 ELSE StepsLeftFrom(r) - idx

\* every index and every run reference the next step uses is in range
NoPanic ==
    /\ ri \in 1..(Len(runs) + 1)
    /\ ri <= Len(runs) => i \in 0..Len(runRune)
    /\ \A k \in 1..Len(stack) :
           /\ stack[k].Run \in 1..Len(runs)
           /\ \A n \in 1..Len(stack[k].SpanRun) : stack[k].SpanRun[n] \in 1..Len(runs)

\* C12: ParsePlaceholders never fails: for every run sequence the scan terminates
\* (no step of it can panic, and every step leaves fewer steps to do down to the
\* return) and err is nil, also at the return.
C12_NeverFails ==
    /\ [](err = "nil")
    /\ [](pc = "scan" => (NoPanic /\ StepsLeft(pc, ri, i) > 0))
    /\ [][pc = "scan" => /\ docBytes' = docBytes /\ runs' = runs
                         /\ StepsLeft(pc', ri', i') < StepsLeft(pc, ri, i)
                         /\ StepsLeft(pc', ri', i') >= 0
                         /\ (StepsLeft(pc', ri', i') = 0 <=> pc' = "done")]_vars

C12_Witness ==
    /\ pc = "done"
    /\ err = "nil"
    /\ Len(UnmatchedOpenLines) >= 1
    /\ UnmatchedCloses # {}
    /\ \E k \in 1..Len(runs) : Texts[k] = <<>>

\* len(run.GetText(docBytes)): the length of the text of run k, in bytes
TextLen(k) == Len(GetText(docBytes, runs[k]))

\* C13: a placeholder has at least one fragment; with one fragment both delimiters
\* are in its run; with more, the first fragment ends at the text length of its
\* run, every middle fragment is {0, text length of its run}, and the last fragment
\* starts at 0 and ends one past the index of the close delimiter.
C13_FragmentShape ==
    \A p \in Emitted :
        LET n == Len(p.Fragments)
            first == p.Fragments[1]
            last == p.Fragments[n]
        IN  /\ n >= 1
            /\ first.Position.Start + 1 \in 1..Len(Texts[first.Run])
            /\ Texts[first.Run][first.Position.Start + 1] = OpenDelimiter
            /\ last.Position.End \in 1..Len(Texts[last.Run])
            /\ Texts[last.Run][last.Position.End] = CloseDelimiter
            /\ n = 1 <=> first.Run = last.Run
            /\ n > 1 =>
                  /\ first.Position.End = TextLen(first.Run)
                  /\ \A m \in 2..(n - 1) :
                         /\ p.Fragments[m].Position = [Start |-> 0,
                                                       End |-> TextLen(p.Fragments[m].Run)]
                         /\ p.Fragments[m - 1].Run < p.Fragments[m].Run
                         /\ p.Fragments[m].Run < last.Run
                  /\ last.Position.Start = 0

C13_Witness ==
    /\ pc = "done"
    /\ \E p \in Emitted : Len(p.Fragments) >= 3
                          /\ TextLen(p.Fragments[2].Run) > Len(Texts[p.Fragments[2].Run])

\* a fragment position lies inside the text of the fragment's run
InsideRun(f) ==
    /\ 0 <= f.Position.Start
    /\ f.Position.Start <= f.Position.End
    /\ f.Position.End <= TextLen(f.Run)

\* C14 as stated: every fragment of every returned placeholder has
\* 0 <= Start < End <= text length of its run.
C14_StrictlyValid ==
    \A p \in Emitted : \A m \in 1..Len(p.Fragments) :
        InsideRun(p.Fragments[m]) /\ p.Fragments[m].Position.Start < p.Fragments[m].Position.End

\* C14 as amended: every fragment of every returned placeholder has
\* 0 <= Start <= End <= text length of its run, and Start < End unless the fragment
\* is the whole-run fragment {0, 0} of an empty run between the open and the close.
C14_ValidButEmptySpan ==
    \A p \in Emitted : \A m \in 1..Len(p.Fragments) :
        /\ InsideRun(p.Fragments[m])
        /\ \/ p.Fragments[m].Position.Start < p.Fragments[m].Position.End
           \/ /\ 1 < m /\ m < Len(p.Fragments)
              /\ Texts[p.Fragments[m].Run] = <<>>
              /\ p.Fragments[m].Position = [Start |-> 0, End |-> 0]

C14_Witness ==
    /\ pc = "done"
    /\ \E p \in Emitted : \E m \in 1..Len(p.Fragments) :
           p.Fragments[m].Position = [Start |-> 0, End |-> 0]
    /\ \E p \in Emitted : \E m \in 1..Len(p.Fragments) :
           p.Fragments[m].Position.End = TextLen(p.Fragments[m].Run)
           /\ TextLen(p.Fragments[m].Run) > Len(Texts[p.Fragments[m].Run])

\* the inner loop over the current run has ended
AtEndOfRun == pc = "scan" /\ ri <= Len(runs) /\ i = Len(runRune)

\* an open delimiter or a matched close delimiter was scanned in run k: a fragment
\* opened in k is open or emitted, or a placeholder was closed in k
DelimiterSeenIn(k) ==
    \/ \E n \in 1..Len(stack) : stack[n].Run = k
    \/ \E p \in Emitted : FirstFragment(p).Run = k \/ LastFragment(p).Run = k

RECURSIVE RunsWithoutDelimiter(_, _)
\* the runs from a up to b in which no delimiter was seen, in order
RunsWithoutDelimiter(a, b) ==
    IF a > b THEN <<>>
    ELSE (IF DelimiterSeenIn(a) THEN <<>> ELSE <<a>>) \o RunsWithoutDelimiter(a + 1, b)

\* C15: at the end of a run in which no delimiter was seen the run is appended to
\* the SpanRun list of every fragment on the stack, once; at the end of a run with a
\* delimiter, and at every other step, no SpanRun list changes.
C15_SpanRunAppend ==
    /\ [][/\ AtEndOfRun =>
               stack' = IF DelimiterSeenIn(ri) THEN stack
                        ELSE [k \in 1..Len(stack) |->
                                [stack[k] EXCEPT !.SpanRun = Append(@, ri)]]
          /\ ~AtEndOfRun =>
               \A k \in 1..Len(stack) :
                   k <= Len(stack') => stack'[k].SpanRun = stack[k].SpanRun]_vars
    /\ [](\A k \in 1..Len(stack) :
             stack[k].SpanRun = RunsWithoutDelimiter(stack[k].Run + 1, ri - 1))

C15_Witness ==
    /\ Len(stack) >= 2
    /\ \A k \in 1..Len(stack) : stack[k].SpanRun # <<>>
    /\ stack[1].Run # stack[2].Run

\* the scan is at a close delimiter and a fragment is open
AtMatchedClose ==
    /\ InRun
    /\ runRune[i + 1] = CloseDelimiter
    /\ runRune[i + 1] # OpenDelimiter
    /\ stack # <<>>

\* C16: a placeholder is created once, when a close delimiter pops a fragment, and
\* never changes afterwards: not its fragments, not its place in the result.
C16_PlaceholdersImmutable ==
    [][/\ Len(placeholders') >= Len(placeholders)
       /\ SubSeq(placeholders', 1, Len(placeholders)) = placeholders
       /\ Len(placeholders') <= Len(placeholders) + 1
       /\ Len(placeholders') = Len(placeholders) + 1 <=> AtMatchedClose
       /\ AtMatchedClose =>
              /\ stack' = SubSeq(stack, 1, Len(stack) - 1)
              /\ OpenedAt(placeholders'[Len(placeholders')])
                     = <<stack[Len(stack)].Run, stack[Len(stack)].Position.Start>>
              /\ ClosedAt(placeholders'[Len(placeholders')]) = <<ri, i>>]_vars

C16_Witness ==
    /\ pc = "done"
    /\ Len(placeholders) >= 1
    /\ \E k \in 1..Len(stack) :
           /\ stack[k].SpanRun # <<>>
           /\ stack[k].SpanRun[1] > LastFragment(placeholders[1]).Run
           /\ stack[k].Run < FirstFragment(placeholders[1]).Run

(***************************************************************************)
(* ChangeOpenCloseDelimiter beside a reader.  The setter makes two plain    *)
(* assignments to two package variables and nothing orders them for another *)
(* goroutine, so a reader can find either of them done first.               *)
(***************************************************************************)
InitRace ==
    /\ OpenDelimiter = DefaultOpenDelimiter
    /\ CloseDelimiter = DefaultCloseDelimiter
    /\ docBytes = <<>>
    /\ runs = <<>>
    /\ pc = "idle"
    /\ ri = 1
    /\ i = 0
    /\ hasDelimiter = FALSE
    /\ stack = <<>>
    /\ placeholders = <<>>
    /\ log = <<>>
    /\ str = <<>>
    /\ cur = <<>>
    /\ calls = <<>>
    /\ isDelim = FALSE
    /\ err = "nil"
    /\ setter = NoSetter
    /\ seen = NothingSeen

\* the call ChangeOpenCloseDelimiter(openDelimiter, closeDelimiter)
SetterCall(openDelimiter, closeDelimiter) ==
    /\ setter.pc \in {"idle", "done"}
    /\ setter' = [pc |-> "called", open |-> openDelimiter, close |-> closeDelimiter,
                  oldOpen |-> OpenDelimiter, oldClose |-> CloseDelimiter, wrote |-> {}]
    /\ UNCHANGED <<OpenDelimiter, CloseDelimiter, parseVars, utilVars, seen>>

\* OpenDelimiter = openDelimiter, as another goroutine comes to see it
SetterWriteOpen ==
    /\ setter.pc = "called"
    /\ "open" \notin setter.wrote
    /\ OpenDelimiter' = setter.open
    /\ setter' = [setter EXCEPT !.wrote = @ \cup {"open"}]
    /\ UNCHANGED <<CloseDelimiter, parseVars, utilVars, seen>>

\* SetterWriteClose assigning the wrong parameter
SetterWriteCloseWrong ==
    /\ setter.pc = "called"
    /\ "close" \notin setter.wrote
    /\ CloseDelimiter' = setter.open
    /\ setter' = [setter EXCEPT !.wrote = @ \cup {"close"}]
    /\ UNCHANGED <<OpenDelimiter, parseVars, utilVars, seen>>

\* CloseDelimiter = closeDelimiter, as another goroutine comes to see it
SetterWriteClose ==
    /\ setter.pc = "called"
    /\ "close" \notin setter.wrote
    /\ CloseDelimiter' = setter.close
    /\ setter' = [setter EXCEPT !.wrote = @ \cup {"close"}]
    /\ UNCHANGED <<OpenDelimiter, parseVars, utilVars, seen>>

\* the setter returns
SetterReturn ==
    /\ setter.pc = "called"
    /\ setter.wrote = {"open", "close"}
    /\ setter' = [setter EXCEPT !.pc = "done"]
    /\ UNCHANGED <<OpenDelimiter, CloseDelimiter, parseVars, utilVars, seen>>

\* A reader is one iteration of the scan (lines 75 and 81) or one call of
\* IsDelimitedPlaceholder (line 176).  It loads OpenDelimiter, compares, and loads
\* CloseDelimiter only if the first comparison did not decide; the two loads are
\* separate steps and the setter can take any number of steps between them.
\* seen.pc is "start" before the first load, "open" between the two loads and
\* "both" when the reader holds a pair; atOpen and atClose are the setter as it
\* was at each load.

\* the load of OpenDelimiter (line 75, line 176 left operand)
ReaderLoadOpen ==
    /\ seen.pc \in {"start", "both"}
    /\ seen' = [seen EXCEPT !.pc = "open", !.open = OpenDelimiter, !.atOpen = setter]
    /\ UNCHANGED <<OpenDelimiter, CloseDelimiter, parseVars, utilVars, setter>>

\* the first comparison decides (the rune is the open delimiter: continue; the
\* first byte is not: && is false): CloseDelimiter is not loaded
ReaderDecided ==
    /\ seen.pc = "open"
    /\ seen' = [seen EXCEPT !.pc = "start"]
    /\ UNCHANGED <<OpenDelimiter, CloseDelimiter, parseVars, utilVars, setter>>

\* the load of CloseDelimiter (line 81, line 176 right operand)
ReaderLoadClose ==
    /\ seen.pc = "open"
    /\ seen' = [seen EXCEPT !.pc = "both", !.close = CloseDelimiter, !.atClose = setter]
    /\ UNCHANGED <<OpenDelimiter, CloseDelimiter, parseVars, utilVars, setter>>

NextRace ==
    \/ \E d \in UtilDelimiters : SetterCall(d[1], d[2])
    \/ SetterWriteOpen
    \/ SetterWriteClose
    \/ SetterReturn
    \/ ReaderLoadOpen
    \/ ReaderDecided
    \/ ReaderLoadClose

SpecRace == InitRace /\ [][NextRace]_vars

\* the two loads of the reader were made beside one and the same call of the
\* setter (during it, or after its return and before the next call)
SameCall(s, t) ==
    /\ s.pc # "idle"
    /\ t.pc # "idle"
    /\ s.open = t.open
    /\ s.close = t.close
    /\ s.oldOpen = t.oldOpen
    /\ s.oldClose = t.oldClose

\* what a load of a delimiter returns when the setter is as in s: the default
\* before any call, the new value once the setter has assigned it, the old
\* value before
OpenAt(s) ==
    IF s.pc = "idle" THEN DefaultOpenDelimiter
    ELSE IF "open" \in s.wrote THEN s.open
    ELSE s.oldOpen

CloseAt(s) ==
    IF s.pc = "idle" THEN DefaultCloseDelimiter
    ELSE IF "close" \in s.wrote THEN s.close
    ELSE s.oldClose

\* C17 as stated: a reader running beside a call of the setter holds the pair the
\* setter was called with or the pair it replaces, never one delimiter of each.
C17_SetterAtomic ==
    (seen.pc = "both" /\ SameCall(seen.atOpen, seen.atClose)) =>
        \/ (seen.open = seen.atClose.open /\ seen.close = seen.atClose.close)
        \/ (seen.open = seen.atClose.oldOpen /\ seen.close = seen.atClose.oldClose)

\* C17 as amended: when the setter has returned both delimiters are the new ones;
\* each load of a reader returns, for that delimiter alone, the new value if the
\* setter had assigned it by then and the old value if not, so the pair a reader
\* holds need not be a pair the setter was ever called with.
C17_SetterNotAtomic ==
    /\ setter.pc = "done" =>
           /\ setter.wrote = {"open", "close"}
           /\ OpenDelimiter = setter.open
           /\ CloseDelimiter = setter.close
    /\ OpenDelimiter = OpenAt(setter)
    /\ CloseDelimiter = CloseAt(setter)
    /\ seen.pc \in {"open", "both"} => seen.open = OpenAt(seen.atOpen)
    /\ seen.pc = "both" => seen.close = CloseAt(seen.atClose)

\* new open with old close, both loads made during one call
C17_Witness ==
    /\ seen.pc = "both"
    /\ seen.atOpen.pc = "called"
    /\ seen.atClose.pc = "called"
    /\ SameCall(seen.atOpen, seen.atClose)
    /\ seen.open = seen.atOpen.open
    /\ seen.open # seen.atOpen.oldOpen
    /\ seen.close = seen.atClose.oldClose
    /\ seen.close # seen.atClose.close

\* the code points the scan has consumed so far
Scanned ==
    Concat([k \in 1..Len(runs) |->
              IF k < ri THEN Texts[k]
              ELSE IF k = ri THEN SubSeq(Texts[k], 1, i)
              ELSE <<>>])

\* C18: at every point of the scan the open delimiters scanned so far are the
\* placeholders emitted plus the fragments on the stack; at the end, with two
\* different delimiters, the open delimiters of the input are the placeholders
\* plus the unmatched-open lines and the close delimiters are the placeholders
\* plus the unmatched-close lines.
C18_Conservation ==
    /\ CountRune(Scanned, OpenDelimiter) = Len(placeholders) + Len(stack)
    /\ (pc = "done" /\ OpenDelimiter # CloseDelimiter) =>
           /\ CountRune(Concat(Texts), OpenDelimiter)
                  = Len(placeholders) + Len(UnmatchedOpenLines)
           /\ CountRune(Concat(Texts), CloseDelimiter)
                  = Len(placeholders) + Cardinality(UnmatchedCloses)

C18_Witness ==
    /\ pc = "done"
    /\ OpenDelimiter # CloseDelimiter
    /\ Len(placeholders) >= 1
    /\ Len(UnmatchedOpenLines) >= 1
    /\ Cardinality(UnmatchedCloses) >= 1
    /\ Len(runs) >= 2

\* every fragment there is: the open ones and the ones of the placeholders
AllFragments ==
    {stack[n] : n \in 1..Len(stack)}
    \cup UNION {{p.Fragments[m] : m \in 1..Len(p.Fragments)} : p \in Emitted}

\* C19: every run in the SpanRun list of any fragment holds no open and no close
\* delimiter, comes after the fragment's own run, and the runs of one list are
\* in strictly increasing run order.
C19_SpanRunPurity ==
    \A f \in AllFragments : \A k \in 1..Len(f.SpanRun) :
        /\ f.SpanRun[k] \in 1..Len(runs)
        /\ NoDelimiterIn(Texts[f.SpanRun[k]])
        /\ f.SpanRun[k] > f.Run
        /\ k > 1 => f.SpanRun[k - 1] < f.SpanRun[k]

C19_Witness ==
    /\ \E n \in 1..Len(stack) : Len(stack[n].SpanRun) >= 2
    /\ UnmatchedCloses # {}

IsOpenAt(pos) == RuneAtPosition(pos) = OpenDelimiter

\* C20: with the open and the close delimiter equal no placeholder is ever
\* emitted and no unmatched close is ever logged, and at the return there is one
\* unmatched-open line per occurrence of the delimiter, at its place.
C20_EqualDelimiters ==
    OpenDelimiter = CloseDelimiter =>
        /\ placeholders = <<>>
        /\ UnmatchedCloses = {}
        /\ pc = "done" =>
               /\ Len(UnmatchedOpenLines) = CountRune(Concat(Texts), OpenDelimiter)
               /\ [n \in 1..Len(UnmatchedOpenLines) |->
                      <<UnmatchedOpenLines[n].run, UnmatchedOpenLines[n].index>>]
                      = SelectSeq(AllPositions, IsOpenAt)

C20_Witness ==
    /\ pc = "done"
    /\ OpenDelimiter = CloseDelimiter
    /\ Len(UnmatchedOpenLines) >= 2
    /\ Len(runs) >= 2
    /\ \E n \in 1..Len(runs) : CountRune(Texts[n], OpenDelimiter) >= 2

====
